---- MODULE Spec2Model ----
(***************************************************************************)
(* A model of enigma.py: the Rotor / Reflector value objects, the          *)
(* positioned _InternalRotor, and the Enigma machine with its property     *)
(* setters and encode().                                                   *)
(*                                                                         *)
(* Characters are one-element strings.  "A".."Z" and "a".."z" are the      *)
(* ASCII letters; "E'" and "e'" stand for a non-ASCII letter and its       *)
(* lower case (str.isalpha() is true of it, ABC.index() raises on it);     *)
(* "1" stands for a character that is no letter.  A Python str is a        *)
(* sequence of characters.  A raised exception is the name of its class.   *)
(***************************************************************************)
EXTENDS Integers, Sequences, FiniteSets, TLC

ABC == <<"A","B","C","D","E","F","G","H","I","J","K","L","M",
         "N","O","P","Q","R","S","T","U","V","W","X","Y","Z">>

abc == <<"a","b","c","d","e","f","g","h","i","j","k","l","m",
         "n","o","p","q","r","s","t","u","v","w","x","y","z">>

OK == "ok"

Range(s) == {s[i] : i \in 1..Len(s)}

\* the search of s.index(c) from place i on: the 0-based place of the first
\* occurrence, or -1 where Python raises ValueError
Find(s, c, i) ==
  IF \E j \in i..Len(s) : s[j] = c
  THEN (CHOOSE j \in i..Len(s) : s[j] = c /\ \A k \in i..(j - 1) : s[k] # c) - 1
  ELSE -1

\* s.index(c) does not raise
Has(s, c) == Find(s, c, 1) >= 0

\* s.index(c), 0-based (the caller checks Has)
Index(s, c) == Find(s, c, 1)

\* ABC.index, tabulated over the letters of ABC
Ord == [c \in Range(ABC) |-> Find(ABC, c, 1)]

\* ABC.index(c) for a letter of ABC
OrdOf(c) == Ord[c]

\* ABC.index(c) does not raise
InABC(c) == c \in DOMAIN Ord

\* s[i], 0-based
At(s, i) == s[i + 1]

\* the characters of the model that str.isalpha accepts: the letters of ABC
\* and abc, and E', e' for a letter outside them and its lower case
Letters == Range(ABC) \cup Range(abc) \cup {"E'", "e'"}

\* c.isalpha() for one character
IsAlpha(c) == c \in Letters

\* s.isalpha(): false of the empty string
IsAlphaStr(s) == Len(s) > 0 /\ \A i \in 1..Len(s) : IsAlpha(s[i])

\* str.upper, tabulated over the letters of abc
Capital == [c \in Range(abc) |-> At(ABC, Index(abc, c))]

\* c.upper() for one character
Upper(c) == IF c \in DOMAIN Capital THEN Capital[c]
            ELSE IF c = "e'" THEN "E'" ELSE c

\* s.upper()
UpperStr(s) == [i \in 1..Len(s) |-> Upper(s[i])]

\* s[k:] + s[:k]
RotateLeft(s, k) == [i \in 1..Len(s) |-> s[((i - 1 + k) % Len(s)) + 1]]

\* an optional str argument: None, or a str
None == [given |-> FALSE, str |-> <<>>]

Some(s) == [given |-> TRUE, str |-> s]

(***************************************************************************)
(* class Rotor                                                             *)
(***************************************************************************)
Raise(e) == [err |-> e]

\* Rotor.__init__: the object built, or the exception raised
RotorInit(wiring, notch, ring) ==
  IF Len(wiring) # 26 \/ ~IsAlphaStr(wiring) \/ Cardinality(Range(wiring)) < 26
    THEN Raise("RotorError")
  ELSE IF Len(ring) # 1 \/ ~IsAlphaStr(ring) THEN Raise("ValueError")
  ELSE IF ~InABC(Upper(ring[1])) THEN Raise("ValueError")
  ELSE IF notch.given /\ Len(notch.str) \notin {1, 2} THEN Raise("ValueError")
  ELSE IF notch.given /\ \E i \in 1..Len(notch.str) : ~InABC(notch.str[i])
    THEN Raise("ValueError")
  ELSE [err |-> OK,
        wiring |-> UpperStr(wiring),
        ring |-> OrdOf(Upper(ring[1])),
        notchNone |-> ~notch.given,
        notch |-> {OrdOf(notch.str[i]) : i \in 1..Len(notch.str)}]

\* a Rotor object: what __init__ built, with the object's identity
Rotor(id, wiring, notch) ==
  [name |-> id] @@ RotorInit(wiring, notch, <<"A">>)

(***************************************************************************)
(* class _InternalRotor                                                    *)
(***************************************************************************)
\* remap as it would be were the ring left out of the wiring's shift
RemapRingless(wiring, ring, pos) ==
  RotateLeft(wiring, (pos - ring) % 26)

\* _InternalRotor.remap: the mapping computed from wiring, ring and pos
Remap(wiring, ring, pos) ==
  LET w == [i \in 1..Len(wiring) |-> At(ABC, (OrdOf(wiring[i]) + ring) % 26)]
  IN  RotateLeft(w, (pos - ring) % 26)

\* rotor.remap()
remap(r) == [r EXCEPT !.mapping = Remap(r.wiring, r.ring, r.pos)]

\* _InternalRotor.__init__
InternalRotor(baserotor, pos) ==
  LET notches == IF baserotor.notchNone THEN None
                 ELSE Some([i \in 1..Cardinality(baserotor.notch) |->
                        At(ABC, CHOOSE n \in baserotor.notch :
                             Cardinality({m \in baserotor.notch : m < n}) = i - 1)])
      Built(base, p) ==
        [err |-> OK, baserotor |-> baserotor.name,
         wiring |-> base.wiring, ring |-> base.ring,
         notchNone |-> base.notchNone, notch |-> base.notch,
         pos |-> p, mapping |-> Remap(base.wiring, base.ring, p)]
      \* after super().__init__ has built base
      Rest(base) ==
        IF base.err # OK THEN base
        ELSE IF ~(Len(pos) = 1 /\ IsAlphaStr(pos)) THEN Raise("RotorError")
        ELSE IF ~InABC(Upper(pos[1])) THEN Raise("ValueError")
        ELSE Built(base, OrdOf(Upper(pos[1])))
  IN  Rest(RotorInit(baserotor.wiring, notches, <<At(ABC, baserotor.ring)>>))

ValueError == "ValueError"

\* _InternalRotor.right2left; ValueError stands for the exception, which propagates
right2left(r, char) ==
  IF char = ValueError \/ ~InABC(char) THEN ValueError
  ELSE LET Back(newchar) == IF ~InABC(newchar) THEN ValueError
                            ELSE At(ABC, (OrdOf(newchar) - r.pos) % 26)
       IN  Back(At(r.mapping, OrdOf(char) % 26))

\* left2right as it would be were the position left out on the way in
left2rightUnturned(r, char) ==
  IF char = ValueError \/ ~InABC(char) THEN ValueError
  ELSE IF ~Has(r.mapping, char) THEN ValueError
  ELSE At(ABC, Index(r.mapping, char) % 26)

\* _InternalRotor.left2right
left2right(r, char) ==
  IF char = ValueError \/ ~InABC(char) THEN ValueError
  ELSE LET Back(newchar) == IF ~Has(r.mapping, newchar) THEN ValueError
                            ELSE At(ABC, Index(r.mapping, newchar) % 26)
       IN  Back(At(ABC, (OrdOf(char) + r.pos) % 26))

\* turn as it would be were the mapping left as it was
turnUnmapped(r) == [r EXCEPT !.pos = (r.pos + 1) % 26]

\* _InternalRotor.turn
turn(r) == [r EXCEPT !.pos = (r.pos + 1) % 26,
                     !.mapping = RotateLeft(r.mapping, 1)]

(***************************************************************************)
(* class Reflector, class _InternalReflector                               *)
(***************************************************************************)
\* Reflector.__init__
ReflectorInit(wiring) ==
  LET \* after Rotor.__init__ has built base, with w = wiring.upper(): the
      \* loop stops at the first i where w.index(c) or the comparison fails
      Rest(base, w) ==
        LET Missing(i) == ~Has(w, ABC[i])
            Fails(i) == Missing(i) \/ w[i] # At(ABC, Index(w, ABC[i]))
        IN  IF base.err # OK THEN base
            ELSE IF \E i \in 1..26 : Fails(i)
              THEN IF Missing(CHOOSE i \in 1..26 :
                                Fails(i) /\ \A j \in 1..(i-1) : ~Fails(j))
                     THEN Raise("ValueError")
                   ELSE Raise("RotorError")
            ELSE base
  IN  Rest(RotorInit(wiring, None, <<"A">>), UpperStr(wiring))

\* a Reflector object
Reflector(id, wiring) == [name |-> id] @@ ReflectorInit(wiring)

\* _InternalReflector.__init__
InternalReflector(basereflector) ==
  LET Rest(base) ==
        IF base.err # OK THEN base
        ELSE [err |-> OK, baserotor |-> basereflector.name, wiring |-> base.wiring]
  IN  Rest(ReflectorInit(basereflector.wiring))

\* _InternalReflector.reflect
reflect(r, char) ==
  IF char = ValueError \/ ~InABC(Upper(char)) THEN ValueError
  ELSE At(r.wiring, OrdOf(Upper(char)))

(***************************************************************************)
(* The pre-defined rotors and reflectors: the objects that Rotor(wiring,   *)
(* notch) and Reflector(wiring) build at import, written out.  A letter of *)
(* a notch is its place in ABC.                                            *)
(***************************************************************************)
I == [name |-> "I", err |-> OK, ring |-> 0, notchNone |-> FALSE, notch |-> {16},
  wiring |-> <<"E","K","M","F","L","G","D","Q","V","Z","N","T","O",
      "W","Y","H","X","U","S","P","A","I","B","R","C","J">>]

II == [name |-> "II", err |-> OK, ring |-> 0, notchNone |-> FALSE, notch |-> {4},
  wiring |-> <<"A","J","D","K","S","I","R","U","X","B","L","H","W",
      "T","M","C","Q","G","Z","N","P","Y","F","V","O","E">>]

III == [name |-> "III", err |-> OK, ring |-> 0, notchNone |-> FALSE, notch |-> {21},
  wiring |-> <<"B","D","F","H","J","L","C","P","R","T","X","V","Z",
      "N","Y","E","I","W","G","A","K","M","U","S","Q","O">>]

IV == [name |-> "IV", err |-> OK, ring |-> 0, notchNone |-> FALSE, notch |-> {9},
  wiring |-> <<"E","S","O","V","P","Z","J","A","Y","Q","U","I","R",
      "H","X","L","N","F","T","G","K","D","C","M","W","B">>]

V == [name |-> "V", err |-> OK, ring |-> 0, notchNone |-> FALSE, notch |-> {25},
  wiring |-> <<"V","Z","B","R","G","I","T","Y","U","P","S","D","N",
      "H","L","X","A","W","M","J","Q","O","F","E","C","K">>]

VI == [name |-> "VI", err |-> OK, ring |-> 0, notchNone |-> FALSE, notch |-> {25, 12},
  wiring |-> <<"J","P","G","V","O","U","M","F","Y","Q","B","E","N",
      "H","Z","R","D","K","A","S","X","L","I","C","T","W">>]

VII == [name |-> "VII", err |-> OK, ring |-> 0, notchNone |-> FALSE, notch |-> {25, 12},
  wiring |-> <<"N","Z","J","H","G","R","C","X","M","Y","S","W","B",
      "O","U","F","A","I","V","L","P","E","K","Q","D","T">>]

VIII == [name |-> "VIII", err |-> OK, ring |-> 0, notchNone |-> FALSE, notch |-> {25, 12},
  wiring |-> <<"F","K","Q","H","T","L","X","O","C","B","J","S","P",
      "D","Z","R","A","M","E","W","N","I","U","Y","G","V">>]

BETA == [name |-> "BETA", err |-> OK, ring |-> 0, notchNone |-> TRUE, notch |-> {},
  wiring |-> <<"L","E","Y","J","V","C","N","I","X","W","P","B","Q",
      "M","D","R","T","A","K","Z","G","F","U","H","O","S">>]

GAMMA == [name |-> "GAMMA", err |-> OK, ring |-> 0, notchNone |-> TRUE, notch |-> {},
  wiring |-> <<"F","S","O","K","A","N","U","E","R","H","M","B","T",
      "I","Y","C","W","L","Q","P","Z","X","V","G","J","D">>]

UKWB == [name |-> "UKWB", err |-> OK, ring |-> 0, notchNone |-> TRUE, notch |-> {},
  wiring |-> <<"Y","R","U","H","Q","S","L","D","P","X","N","G","O",
      "K","M","I","E","B","F","Z","C","W","V","J","A","T">>]

UKWC == [name |-> "UKWC", err |-> OK, ring |-> 0, notchNone |-> TRUE, notch |-> {},
  wiring |-> <<"F","V","P","J","I","A","O","Y","E","D","R","Z","X",
      "W","G","C","T","K","U","Q","S","B","N","M","H","L">>]

UKWB_THIN == [name |-> "UKWB_THIN", err |-> OK, ring |-> 0, notchNone |-> TRUE, notch |-> {},
  wiring |-> <<"E","N","K","Q","A","U","Y","W","J","I","C","O","P",
      "B","L","M","D","X","Z","V","F","T","H","R","G","S">>]

UKWC_THIN == [name |-> "UKWC_THIN", err |-> OK, ring |-> 0, notchNone |-> TRUE, notch |-> {},
  wiring |-> <<"R","D","O","B","J","N","T","K","V","E","H","M","L",
      "F","C","W","Z","A","X","G","Y","I","P","S","U","Q">>]

ROTORLIST == <<I, II, III, IV, V, VI, VII, VIII, BETA, GAMMA>>

REFLECTORLIST == <<UKWB, UKWC, UKWB_THIN, UKWC_THIN>>

(***************************************************************************)
(* class Enigma.  An Enigma object is a record of its attributes; each     *)
(* setter yields the exception raised (or OK) and the object as the        *)
(* setter left it, which on an exception is whatever had been assigned     *)
(* before the raise.                                                       *)
(***************************************************************************)
Result(e, obj) == [err |-> e, self |-> obj]

\* Enigma.reflector (setter)
SetReflector(self, reflector) ==
  LET Rest(ir) == IF ir.err # OK THEN Result(ir.err, self)
                  ELSE Result(OK, [self EXCEPT !._reflector = ir])
  IN  Rest(InternalReflector(reflector))

\* the checks as they would be were the reflector not looked at
RotorsCheckBlind(rotors, installed) ==
  IF Len(rotors) = 3 THEN
    IF \E i \in 1..3 : rotors[i].name \in {"BETA", "GAMMA"} THEN "EnigmaError"
    ELSE OK
  ELSE IF Len(rotors) = 4 THEN
    IF rotors[1].name \notin {"BETA", "GAMMA"} THEN "EnigmaError"
    ELSE OK
  ELSE "EnigmaError"

\* the checks of Enigma.rotors (setter): the exception raised, or OK
RotorsCheck(rotors, installed) ==
  IF Len(rotors) = 3 THEN
    IF \E i \in 1..3 : rotors[i].name \in {BETA.name, GAMMA.name} THEN "EnigmaError"
    ELSE IF installed \in {UKWB_THIN.name, UKWC_THIN.name} THEN "EnigmaError"
    ELSE OK
  ELSE IF Len(rotors) = 4 THEN
    IF rotors[1].name \notin {BETA.name, GAMMA.name} THEN "EnigmaError"
    ELSE IF installed \in {UKWB.name, UKWC.name} THEN "EnigmaError"
    ELSE OK
  ELSE "EnigmaError"

\* Enigma.rotors (setter)
SetRotors(self, rotors) ==
  LET Rest(chk, new) ==
        IF chk # OK THEN Result(chk, self)
        ELSE IF \E i \in 1..Len(new) : new[i].err # OK
          THEN Result(new[CHOOSE i \in 1..Len(new) : new[i].err # OK
                            /\ \A j \in 1..(i-1) : new[j].err = OK].err, self)
        ELSE Result(OK, [self EXCEPT !._rotors = new])
  IN  Rest(RotorsCheck(rotors, self._reflector.baserotor),
           [i \in 1..Len(rotors) |-> InternalRotor(rotors[i], <<"A">>)])

\* the number of leading characters of s (upper-cased) that ABC.index accepts
Accepted(s) ==
  IF \A i \in 1..Len(s) : InABC(Upper(s[i])) THEN Len(s)
  ELSE (CHOOSE i \in 1..Len(s) : ~InABC(Upper(s[i]))
            /\ \A j \in 1..(i-1) : InABC(Upper(s[j]))) - 1

\* Enigma.grundstellung (setter)
SetGrundstellung(self, grundstellung) ==
  IF ~IsAlphaStr(grundstellung) THEN Result("ValueError", self)
  ELSE IF Len(grundstellung) # Len(self._rotors) THEN Result("EnigmaError", self)
  ELSE LET \* the loop: it raises at the first character ABC.index refuses
           Loop(u, k) ==
             Result(IF k < Len(u) THEN "ValueError" ELSE OK,
                    [self EXCEPT !._rotors =
                       [i \in 1..Len(self._rotors) |->
                          IF i <= k
                          THEN remap([self._rotors[i] EXCEPT !.pos = OrdOf(u[i])])
                          ELSE self._rotors[i]]])
       IN  Loop(UpperStr(grundstellung), Accepted(grundstellung))

\* Enigma.ringstellung (setter)
SetRingstellung(self, ringstellung) ==
  IF Len(self._rotors) # Len(ringstellung) THEN Result("EnigmaError", self)
  ELSE IF ~IsAlphaStr(ringstellung) THEN Result("ValueError", self)
  ELSE LET \* the loop: it raises at the first character ABC.index refuses
           Loop(u, k) ==
             Result(IF k < Len(u) THEN "ValueError" ELSE OK,
                    [self EXCEPT !._rotors =
                       [i \in 1..Len(self._rotors) |->
                          IF i <= k
                          THEN remap([self._rotors[i] EXCEPT !.ring = OrdOf(u[i])])
                          ELSE self._rotors[i]]])
       IN  Loop(UpperStr(ringstellung), Accepted(ringstellung))

\* ''.join(plugboard)
RECURSIVE Join(_)
Join(ss) == IF Len(ss) = 0 THEN <<>> ELSE Head(ss) \o Join(Tail(ss))

\* s.count(c)
Count(s, c) == Cardinality({i \in 1..Len(s) : s[i] = c})

\* d[k] = v on a dict
Put(d, k, v) == [x \in (DOMAIN d) \cup {k} |-> IF x = k THEN v ELSE d[x]]

\* the loop of Enigma.plugboard (setter) from pair i on
RECURSIVE PlugLoop(_, _, _)
PlugLoop(d, plugboard, i) ==
  IF i > Len(plugboard) THEN d
  ELSE IF plugboard[i][1] = plugboard[i][2] THEN PlugLoop(d, plugboard, i + 1)
  ELSE LET Wire(pair) ==
             PlugLoop(Put(Put(d, pair[1], pair[2]), pair[2], pair[1]), plugboard, i + 1)
       IN  Wire(UpperStr(plugboard[i]))

EmptyDict == [x \in {} |-> x]

\* Enigma.plugboard (setter)
SetPlugboard(self, plugboard) ==
  IF Len(plugboard) = 0 THEN Result(OK, [self EXCEPT !._plugboard = EmptyDict])
  ELSE LET Rest(plugstr) ==
             IF (\E i \in 1..Len(plugboard) : Len(plugboard[i]) # 2) \/ ~IsAlphaStr(plugstr)
               THEN Result("ValueError", self)
             ELSE IF \E i \in 1..Len(plugstr) : Count(plugstr, plugstr[i]) > 1
               THEN Result("ValueError", self)
             ELSE Result(OK, [self EXCEPT !._plugboard = PlugLoop(EmptyDict, plugboard, 1)])
       IN  Rest(Join(plugboard))

\* the lookup as it would be were no plug ever fitted
GetUnplugged(d, k) == k

\* dict.get(k, k)
Get(d, k) == IF k \in DOMAIN d THEN d[k] ELSE k

\* the stepping as it would be were the carry taken after the double step
StepNoSkip(self) ==
  LET n == Len(self._rotors)
      r1 == self._rotors[n]
      r2 == self._rotors[n - 1]
      turned(S) == [self EXCEPT !._rotors =
                      [i \in 1..n |-> IF i \in S THEN turn(self._rotors[i])
                                      ELSE self._rotors[i]]]
      twice(T) == [T EXCEPT !._rotors[n - 1] = turn(T._rotors[n - 1])]
  IN  IF self.doublestep /\ r2.notchNone THEN Result("TypeError", self)
      ELSE IF self.doublestep /\ r2.pos \in r2.notch
        THEN IF r1.pos \in r1.notch
             THEN Result(OK, twice(turned({n - 1, n - 2, n})))
             ELSE Result(OK, turned({n - 1, n - 2, n}))
      ELSE IF r1.notchNone THEN Result("TypeError", self)
      ELSE IF r1.pos \in r1.notch THEN
        IF r2.notchNone THEN Result("TypeError", self)
        ELSE IF r2.pos \in r2.notch THEN Result(OK, turned({n - 2, n - 1, n}))
        ELSE Result(OK, turned({n - 1, n}))
      ELSE Result(OK, turned({n}))

\* the stepping as it would be were the carry to stop at the second rotor
StepShortCarry(self) ==
  LET n == Len(self._rotors)
      r1 == self._rotors[n]
      r2 == self._rotors[n - 1]
      turned(S) == [self EXCEPT !._rotors =
                      [i \in 1..n |-> IF i \in S THEN turn(self._rotors[i])
                                      ELSE self._rotors[i]]]
  IN  IF self.doublestep /\ r2.notchNone THEN Result("TypeError", self)
      ELSE IF self.doublestep /\ r2.pos \in r2.notch
        THEN Result(OK, turned({n - 1, n - 2, n}))
      ELSE IF r1.notchNone THEN Result("TypeError", self)
      ELSE IF r1.pos \in r1.notch THEN
        IF r2.notchNone THEN Result("TypeError", self)
        ELSE Result(OK, turned({n - 1, n}))
      ELSE Result(OK, turned({n}))

\* the stepping as it would be were the carry to reach the fourth rotor
StepLongCarry(self) ==
  LET n == Len(self._rotors)
      r1 == self._rotors[n]
      r2 == self._rotors[n - 1]
      turned(S) == [self EXCEPT !._rotors =
                      [i \in 1..n |-> IF i \in S THEN turn(self._rotors[i])
                                      ELSE self._rotors[i]]]
  IN  IF self.doublestep /\ r2.notchNone THEN Result("TypeError", self)
      ELSE IF self.doublestep /\ r2.pos \in r2.notch
        THEN Result(OK, turned({n - 1, n - 2, n}))
      ELSE IF r1.notchNone THEN Result("TypeError", self)
      ELSE IF r1.pos \in r1.notch THEN
        IF r2.notchNone THEN Result("TypeError", self)
        ELSE IF r2.pos \in r2.notch THEN Result(OK, turned({n - 3, n - 2, n - 1, n}))
        ELSE Result(OK, turned({n - 1, n}))
      ELSE Result(OK, turned({n}))

\* the stepping as it would be were the rightmost rotor left alone by the
\* double step
StepDoubleAlone(self) ==
  LET n == Len(self._rotors)
      r1 == self._rotors[n]
      r2 == self._rotors[n - 1]
      turned(S) == [self EXCEPT !._rotors =
                      [i \in 1..n |-> IF i \in S THEN turn(self._rotors[i])
                                      ELSE self._rotors[i]]]
  IN  IF self.doublestep /\ r2.notchNone THEN Result("TypeError", self)
      ELSE IF self.doublestep /\ r2.pos \in r2.notch
        THEN Result(OK, turned({n - 1, n - 2}))
      ELSE IF r1.notchNone THEN Result("TypeError", self)
      ELSE IF r1.pos \in r1.notch THEN
        IF r2.notchNone THEN Result("TypeError", self)
        ELSE IF r2.pos \in r2.notch THEN Result(OK, turned({n - 2, n - 1, n}))
        ELSE Result(OK, turned({n - 1, n}))
      ELSE Result(OK, turned({n}))

\* the stepping as it would be were the double step never taken
StepCarryOnly(self) ==
  LET n == Len(self._rotors)
      r1 == self._rotors[n]
      r2 == self._rotors[n - 1]
      turned(S) == [self EXCEPT !._rotors =
                      [i \in 1..n |-> IF i \in S THEN turn(self._rotors[i])
                                      ELSE self._rotors[i]]]
  IN  IF r1.notchNone THEN Result("TypeError", self)
      ELSE IF r1.pos \in r1.notch THEN
        IF r2.notchNone THEN Result("TypeError", self)
        ELSE IF r2.pos \in r2.notch THEN Result(OK, turned({n - 2, n - 1, n}))
        ELSE Result(OK, turned({n - 1, n}))
      ELSE Result(OK, turned({n}))

\* the stepping of one keystroke in Enigma.encode: the rotors turned, or the
\* TypeError of "pos in None" with the rotors as they were (no turn precedes it)
Step(self) ==
  LET n == Len(self._rotors)
      r1 == self._rotors[n]
      r2 == self._rotors[n - 1]
      turned(S) == [self EXCEPT !._rotors =
                      [i \in 1..n |-> IF i \in S THEN turn(self._rotors[i])
                                      ELSE self._rotors[i]]]
  IN  IF self.doublestep /\ r2.notchNone THEN Result("TypeError", self)
      ELSE IF self.doublestep /\ r2.pos \in r2.notch
        THEN Result(OK, turned({n - 1, n - 2, n}))
      ELSE IF r1.notchNone THEN Result("TypeError", self)
      ELSE IF r1.pos \in r1.notch THEN
        IF r2.notchNone THEN Result("TypeError", self)
        ELSE IF r2.pos \in r2.notch THEN Result(OK, turned({n - 2, n - 1, n}))
        ELSE Result(OK, turned({n - 1, n}))
      ELSE Result(OK, turned({n}))

\* for rotor in reversed(self._rotors): newchar = rotor.right2left(newchar)
RECURSIVE RightToLeft(_, _, _)
RightToLeft(rotors, i, char) ==
  IF i = 0 THEN char ELSE RightToLeft(rotors, i - 1, right2left(rotors[i], char))

\* for rotor in self._rotors: newchar = rotor.left2right(newchar)
RECURSIVE LeftToRight(_, _, _)
LeftToRight(rotors, i, char) ==
  IF i > Len(rotors) THEN char ELSE LeftToRight(rotors, i + 1, left2right(rotors[i], char))

\* the signal path of one character in Enigma.encode
Path(self, char) ==
  LET Last(c3) == IF c3 = ValueError THEN ValueError ELSE Get(self._plugboard, c3)
  IN  Last(LeftToRight(self._rotors, 1,
             reflect(self._reflector,
               RightToLeft(self._rotors, Len(self._rotors),
                 Get(self._plugboard, char)))))

Outcome(e, w, obj, text) == [err |-> e, where |-> w, self |-> obj, out |-> text]

\* the loop of Enigma.encode from character i of message.upper() on
RECURSIVE EncodeLoop(_, _, _, _)
EncodeLoop(self, message, i, ciphertext) ==
  IF i > Len(message) THEN Outcome(OK, "", self, ciphertext)
  ELSE LET Connect(stepped, newchar) ==
             IF newchar = ValueError THEN Outcome("ValueError", "path", stepped, ciphertext)
             ELSE EncodeLoop(stepped, message, i + 1, Append(ciphertext, newchar))
           Turned(s) ==
             IF s.err # OK THEN Outcome(s.err, "step", s.self, ciphertext)
             ELSE Connect(s.self, Path(s.self, message[i]))
       IN  Turned(Step(self))

\* encode as it would be were a call without a start position to begin from
\* the positions A
EncodeFromRest(self, message, grundstellung) ==
  IF ~IsAlphaStr(message) THEN Outcome("EnigmaError", "message", self, <<>>)
  ELSE LET Rest(g) == IF g.err # OK THEN Outcome(g.err, "grundstellung", g.self, <<>>)
                       ELSE EncodeLoop(g.self, UpperStr(message), 1, <<>>)
       IN  Rest(SetGrundstellung(self,
                  IF grundstellung.given /\ Len(grundstellung.str) > 0
                  THEN grundstellung.str
                  ELSE [i \in 1..Len(self._rotors) |-> "A"]))

\* encode as it would be were the start position assigned before the message
\* is looked at
EncodeStartFirst(self, message, grundstellung) ==
  LET Rest(g) == IF g.err # OK THEN Outcome(g.err, "grundstellung", g.self, <<>>)
                 ELSE IF ~IsAlphaStr(message)
                   THEN Outcome("EnigmaError", "message", g.self, <<>>)
                 ELSE EncodeLoop(g.self, UpperStr(message), 1, <<>>)
  IN  Rest(IF grundstellung.given /\ Len(grundstellung.str) > 0
           THEN SetGrundstellung(self, grundstellung.str)
           ELSE Result(OK, self))

\* Enigma.encode
Encode(self, message, grundstellung) ==
  IF ~IsAlphaStr(message) THEN Outcome("EnigmaError", "message", self, <<>>)
  ELSE LET Rest(g) == IF g.err # OK THEN Outcome(g.err, "grundstellung", g.self, <<>>)
                       ELSE EncodeLoop(g.self, UpperStr(message), 1, <<>>)
       IN  Rest(IF grundstellung.given /\ Len(grundstellung.str) > 0
                THEN SetGrundstellung(self, grundstellung.str)
                ELSE Result(OK, self))

\* an object before __init__ has assigned anything
Blank == [_reflector |-> Raise("unset"), _rotors |-> <<>>,
          _plugboard |-> EmptyDict, doublestep |-> TRUE]

\* 'A'*n
Repeat(c, n) == [i \in 1..n |-> c]

\* Enigma.__init__
Enigma(rotors, reflector, ringstellung, plugboard, doublestep, grundstellung) ==
  LET After5(s) == IF s.err # OK THEN s
                   ELSE Result(OK, [s.self EXCEPT !.doublestep = doublestep])
      After4(s) == IF s.err # OK THEN s
                   ELSE After5(SetPlugboard(s.self, plugboard))
      After3(s) == IF s.err # OK THEN s
                   ELSE After4(SetGrundstellung(s.self,
                          IF Len(grundstellung) = 0 THEN Repeat("A", Len(rotors))
                          ELSE grundstellung))
      After2(s) == IF s.err # OK THEN s
                   ELSE After3(SetRingstellung(s.self,
                          IF Len(ringstellung) = 0 THEN Repeat("A", Len(rotors))
                          ELSE ringstellung))
      After1(s) == IF s.err # OK THEN s ELSE After2(SetRotors(s.self, rotors))
  IN  After1(SetReflector(Blank, reflector))

(***************************************************************************)
(* The machine as a state machine: one Enigma object, the operations of    *)
(* its public surface applied to it, and the outcome of the call in hand.  *)
(* A call is made when none is in hand; Return hands its outcome to the    *)
(* caller.  chain counts the encode calls made without a start position    *)
(* since the object was constructed.                                       *)
(***************************************************************************)
VARIABLES _reflector, _rotors, _plugboard, doublestep, call, chain

vars == <<_reflector, _rotors, _plugboard, doublestep, call, chain>>

\* how many encode calls of one object may continue from the positions left
MaxChain == 1

\* the object the variables hold
this == [_reflector |-> _reflector, _rotors |-> _rotors,
         _plugboard |-> _plugboard, doublestep |-> doublestep]

\* the variables take the attributes of obj
Becomes(obj) ==
  /\ _reflector' = obj._reflector
  /\ _rotors' = obj._rotors
  /\ _plugboard' = obj._plugboard
  /\ doublestep' = obj.doublestep

\* no call is in hand
Idle == [op |-> "", arg |-> <<>>, err |-> OK, where |-> "", out |-> <<>>, plain |-> <<>>]

Call(op, arg, e, w, text, plain) ==
  [op |-> op, arg |-> arg, err |-> e, where |-> w, out |-> text, plain |-> plain]

Names(rotors) == [i \in 1..Len(rotors) |-> rotors[i].name]

\* the state after e = Enigma(...): the constructions that raise yield none
Constructed(made) ==
  /\ made.err = OK
  /\ _reflector = made.self._reflector
  /\ _rotors = made.self._rotors
  /\ _plugboard = made.self._plugboard
  /\ doublestep = made.self.doublestep
  /\ call = Idle
  /\ chain = 0

\* the call op(arg) has ended as r: the object is as the call left it
Ends(op, arg, r) ==
  /\ Becomes(r.self)
  /\ call' = Call(op, arg, r.err, "", <<>>, <<>>)

\* e = Enigma(rotors, reflector): a construction that raises leaves the object held
Construct(rotorChoices, reflectorChoices) ==
  /\ call = Idle
  /\ \E rotors \in rotorChoices, reflector \in reflectorChoices :
       LET Made(made) ==
             /\ Becomes(IF made.err = OK THEN made.self ELSE this)
             /\ call' = Call("__init__",
                             [rotors |-> Names(rotors), reflector |-> reflector.name],
                             made.err, "", <<>>, <<>>)
             /\ chain' = IF made.err = OK THEN 0 ELSE chain
       IN  Made(Enigma(rotors, reflector, <<>>, <<>>, TRUE, <<>>))

\* e.reflector = reflector
AssignReflector(reflectorChoices) ==
  /\ call = Idle
  /\ \E reflector \in reflectorChoices :
       Ends("reflector", reflector.name, SetReflector(this, reflector))
  /\ UNCHANGED chain

\* e.rotors = rotors
AssignRotors(rotorChoices) ==
  /\ call = Idle
  /\ \E rotors \in rotorChoices :
       Ends("rotors", Names(rotors), SetRotors(this, rotors))
  /\ UNCHANGED chain

\* e.ringstellung = ringstellung
AssignRingstellung(ringChoices) ==
  /\ call = Idle
  /\ \E ringstellung \in ringChoices :
       Ends("ringstellung", ringstellung, SetRingstellung(this, ringstellung))
  /\ UNCHANGED chain

\* e.grundstellung = grundstellung
AssignGrundstellung(grundChoices) ==
  /\ call = Idle
  /\ \E grundstellung \in grundChoices :
       Ends("grundstellung", grundstellung, SetGrundstellung(this, grundstellung))
  /\ UNCHANGED chain

\* e.plugboard = plugboard
AssignPlugboard(plugChoices) ==
  /\ call = Idle
  /\ \E plugboard \in plugChoices :
       Ends("plugboard", plugboard, SetPlugboard(this, plugboard))
  /\ UNCHANGED chain

\* e.doublestep = b
AssignDoublestep ==
  /\ call = Idle
  /\ \E b \in BOOLEAN :
       /\ doublestep' = b
       /\ call' = Call("doublestep", b, OK, "", <<>>, <<>>)
  /\ UNCHANGED <<_reflector, _rotors, _plugboard, chain>>

\* the call e.encode(message, grundstellung) has ended as r
Encoded(message, grundstellung, r, plain) ==
  /\ Becomes(r.self)
  /\ call' = Call("encode", [message |-> message, grundstellung |-> grundstellung],
                  r.err, r.where, r.out, plain)

\* e.encode(message, grundstellung)
CallEncode(messageChoices, startChoices) ==
  /\ call = Idle
  /\ \E message \in messageChoices, grundstellung \in startChoices :
       /\ grundstellung.given \/ chain < MaxChain
       /\ Encoded(message, grundstellung, Encode(this, message, grundstellung), <<>>)
       /\ chain' = IF grundstellung.given THEN chain ELSE chain + 1

\* e.encode(c, P) on the c that e.encode(m, P) has just returned
EncodeAgain ==
  /\ call.op = "encode" /\ call.err = OK /\ call.arg.grundstellung.given
  /\ call.plain = <<>>
  /\ Encoded(call.out, call.arg.grundstellung,
             Encode(this, call.out, call.arg.grundstellung),
             UpperStr(call.arg.message))
  /\ UNCHANGED chain

\* e.encode(m2) straight after e.encode(m1, P) has returned
EncodeOn(messageChoices) ==
  /\ call.op = "encode" /\ call.err = OK /\ call.arg.grundstellung.given
  /\ call.plain = <<>>
  /\ chain < MaxChain
  /\ \E message \in messageChoices :
       Encoded(message, None, Encode(this, message, None), <<>>)
  /\ chain' = chain + 1

\* e.reflector = Reflector(wiring): a Reflector that cannot be built is never
\* assigned
InstallReflector(wiringChoices) ==
  /\ call = Idle
  /\ \E wiring \in wiringChoices :
       LET Made(made) ==
             IF made.err # OK
             THEN /\ call' = Call("Reflector", wiring, made.err, "", <<>>, <<>>)
                  /\ UNCHANGED <<_reflector, _rotors, _plugboard, doublestep>>
             ELSE Ends("Reflector", wiring, SetReflector(this, made))
       IN  Made(Reflector("Reflector", wiring))
  /\ UNCHANGED chain

\* the caller takes the outcome
Return ==
  /\ call # Idle
  /\ call' = Idle
  /\ UNCHANGED <<_reflector, _rotors, _plugboard, doublestep, chain>>

(***************************************************************************)
(* Spec: the configuration of a machine.  Every setter, the constructor    *)
(* and encode with a start position, on values accepted and rejected.      *)
(***************************************************************************)
RotorChoices ==
  { <<I, II, III>>, <<BETA, V, VI, VIII>>, <<BETA, I, II>>, <<I, GAMMA, II>>,
    <<V, III, I, II>>, <<I, II>>, <<BETA, I, II, III, IV>> }

ReflectorChoices == {UKWB, UKWC, UKWB_THIN, UKWC_THIN}

RingChoices ==
  { <<"B","B","B">>, <<"E","P","E","L">>,
    <<"A">>, <<"A","1","A">>, <<"B","e'","A">> }

GrundChoices ==
  { <<"A","A","T">>, <<"N","A","E","M">>,
    <<"A">>, <<"A","1","A">>, <<"B","e'","A">> }

M4Plugs ==
  << <<"A","E">>, <<"B","F">>, <<"C","M">>, <<"D","Q">>, <<"H","U">>,
     <<"J","N">>, <<"L","X">>, <<"P","R">>, <<"S","Z">>, <<"V","W">> >>

PlugChoices ==
  { <<>>, M4Plugs, << <<"A","B","C">> >>, << <<"A","B">>, <<"B","C">> >>,
    << <<"A","1">> >>, << <<"A","b">>, <<"a","C">> >>,
    << <<"A","A">>, <<"B","C">> >> }

\* the reflectors of the machines of enigmatest.py
ConstructReflectors == {UKWB, UKWC_THIN}

\* a letter, and a letter with a character that is none
SpecMessages == { <<"a">>, <<"a","1">> }

SpecStarts == {Some(g) : g \in GrundChoices} \cup {None}

\* the machines of enigmatest.py
Init ==
  \E made \in
      { Enigma(<<I, II, III>>, UKWB, <<"A","A","A">>, <<>>, TRUE, <<>>),
        Enigma(<<BETA, V, VI, VIII>>, UKWC_THIN, <<"E","P","E","L">>, M4Plugs, TRUE, <<>>) } :
    Constructed(made)

Next ==
  \/ Construct(RotorChoices, ConstructReflectors)
  \/ AssignReflector(ReflectorChoices)
  \/ AssignRotors(RotorChoices)
  \/ AssignRingstellung(RingChoices)
  \/ AssignGrundstellung(GrundChoices)
  \/ AssignPlugboard(PlugChoices)
  \/ CallEncode(SpecMessages, SpecStarts)
  \/ Return

Spec == Init /\ [][Next]_vars



(***************************************************************************)
(* Properties of the configuration, under Spec.                            *)
(***************************************************************************)
FourRotorOnly == {BETA.name, GAMMA.name}

Thin == {UKWB_THIN.name, UKWC_THIN.name}

Thick == {UKWB.name, UKWC.name}

\* C7: the machine has 3 or 4 rotors; with 3, neither BETA/GAMMA nor a thin
\* reflector is installed; with 4, the leftmost rotor is BETA or GAMMA and
\* the reflector is thin.
ConfigurationInvariant ==
  /\ Len(_rotors) \in {3, 4}
  /\ Len(_rotors) = 3 =>
       /\ \A i \in 1..3 : _rotors[i].baserotor \notin FourRotorOnly
       /\ _reflector.baserotor \notin Thin
  /\ Len(_rotors) = 4 =>
       /\ _rotors[1].baserotor \in FourRotorOnly
       /\ _reflector.baserotor \in Thin

\* the rotor tuple named by names is one the claim C8 says is refused, when
\* the reflector named installed is the one in the machine
Refused(names, installed) ==
  \/ Len(names) = 3 /\ \E i \in 1..3 : names[i] \in FourRotorOnly
  \/ Len(names) = 4 /\ names[1] \notin FourRotorOnly
  \/ Len(names) \notin {3, 4}
  \/ Len(names) = 3 /\ installed \in Thin
  \/ Len(names) = 4 /\ installed \in Thick

\* C8: an assignment of, or a construction with, a rotor tuple that has 3
\* rotors including BETA or GAMMA, 4 rotors whose first is not BETA or GAMMA,
\* a count other than 3 or 4, or a count that does not match the thinness of
\* the installed reflector ends in an error.
RotorTupleRejected ==
  /\ call.op = "rotors" =>
       (Refused(call.arg, _reflector.baserotor) => call.err = "EnigmaError")
  /\ call.op = "__init__" =>
       (Refused(call.arg.rotors, call.arg.reflector) => call.err = "EnigmaError")

\* a 3-rotor tuple without BETA or GAMMA has been refused because the
\* installed reflector is thin
RotorTupleRejectedWitness ==
  /\ call.op = "rotors"
  /\ Len(call.arg) = 3
  /\ \A i \in 1..3 : call.arg[i] \notin FourRotorOnly
  /\ _reflector.baserotor \in Thin
  /\ call.err = "EnigmaError"

\* C9: a rejected assignment to grundstellung, ringstellung, plugboard or
\* rotors, and an encode rejected for its start position, leaves the rotor
\* list (each rotor's position, ring and mapping) and the plugboard as they
\* were before the call.
AllOrNothing ==
  [][ ( /\ call = Idle
        /\ call'.err # OK
        /\ \/ call'.op \in {"grundstellung", "ringstellung", "plugboard", "rotors"}
           \/ call'.op = "encode" /\ call'.where = "grundstellung" )
      => UNCHANGED <<_rotors, _plugboard>> ]_vars

\* C10: after a successful plugboard assignment plugboard[plugboard[k]] = k
\* for every key k, and an assignment in which a letter appears in more than
\* one pair, in any mix of upper and lower case, is rejected.
PlugboardInvolution ==
  call.op = "plugboard" =>
    /\ call.err = OK =>
         \A k \in DOMAIN _plugboard : Get(_plugboard, _plugboard[k]) = k
    /\ (\E i, j \in 1..Len(call.arg) :
          /\ i # j
          /\ Range(UpperStr(call.arg[i])) \cap Range(UpperStr(call.arg[j])) # {})
       => call.err # OK

\* the pair is one letter twice
SelfPaired(pair) == Len(pair) = 2 /\ IsAlphaStr(pair) /\ pair[1] = pair[2]

\* the list is made of self-pairs and of pairs of two letters, no letter of
\* which is in another pair
SelfPairsAmongPairs(plugboard) ==
  /\ \E i \in 1..Len(plugboard) : SelfPaired(plugboard[i])
  /\ \A i \in 1..Len(plugboard) : Len(plugboard[i]) = 2 /\ IsAlphaStr(plugboard[i])
  /\ \A i, j \in 1..Len(plugboard) :
       i # j => Range(UpperStr(plugboard[i])) \cap Range(UpperStr(plugboard[j])) = {}

\* C11: a plugboard assignment that holds a self-pair such as AA succeeds;
\* the letter of the self-pair is left mapped to itself and the other pairs
\* are installed.
SelfPairDropped ==
  (call.op = "plugboard" /\ SelfPairsAmongPairs(call.arg))
  => /\ call.err = OK
     /\ \A i \in 1..Len(call.arg) :
          IF SelfPaired(call.arg[i])
          THEN Get(_plugboard, Upper(call.arg[i][1])) = Upper(call.arg[i][1])
          ELSE /\ Get(_plugboard, Upper(call.arg[i][1])) = Upper(call.arg[i][2])
               /\ Get(_plugboard, Upper(call.arg[i][2])) = Upper(call.arg[i][1])

\* the message holds a character that is no letter
NonLetter(message) == \E i \in 1..Len(message) : ~IsAlpha(message[i])

\* C12: encode of a message that holds a non-letter character ends in an
\* error and leaves the machine as it was before the call, start position
\* given or not.
NonLetterMessageRejected ==
  [][ (call = Idle /\ call'.op = "encode" /\ NonLetter(call'.arg.message))
      => ( /\ call'.err = "EnigmaError"
           /\ UNCHANGED <<_reflector, _rotors, _plugboard, doublestep>> ) ]_vars

\* a message with a non-letter has been refused with the start position AAT
\* given, and the rotors do not stand at AAT
NonLetterMessageRejectedWitness ==
  /\ call.op = "encode"
  /\ NonLetter(call.arg.message)
  /\ call.arg.grundstellung = Some(<<"A","A","T">>)
  /\ call.err = "EnigmaError"
  /\ Len(_rotors) = 3
  /\ [i \in 1..3 |-> At(ABC, _rotors[i].pos)] # <<"A","A","T">>

\* C18: the mapping of every rotor of the machine is what remap computes
\* from the rotor's wiring, ring and position, after construction, after
\* the turns of encode and after the assignments of ring settings and
\* positions.
MappingFresh ==
  \A i \in 1..Len(_rotors) :
    _rotors[i].mapping = Remap(_rotors[i].wiring, _rotors[i].ring, _rotors[i].pos)

\* a keystroke from AAT has turned the rightmost rotor, whose ring is B
MappingFreshWitness ==
  /\ call.op = "encode" /\ call.err = OK
  /\ call.arg.grundstellung = Some(<<"A","A","T">>)
  /\ Len(_rotors) = 3
  /\ _rotors[3].ring = 1
  /\ _rotors[3].pos = 20
  /\ _rotors[3].mapping = Remap(_rotors[3].wiring, 1, 20)

(***************************************************************************)
(* SpecEncode: messages through machines the constructor accepts.          *)
(***************************************************************************)
MessageChoices ==
  { <<"H","E","L","L","O">>, <<"A","A","A","A","A">>, <<"E","W","T","Y","X">>,
    <<"Q","E","O","B">>, <<"a","b","C">> }

StartChoices ==
  { Some(<<"A","A","A">>), Some(<<"A","A","T">>), Some(<<"A","D","T">>),
    Some(<<"N","A","E","M">>) }

InitEncode ==
  \E made \in
      { Enigma(<<I, II, III>>, UKWB, <<"A","A","A">>, <<>>, FALSE, <<>>),
        Enigma(<<I, II, III>>, UKWB, <<"B","B","B">>, <<>>, TRUE, <<>>),
        Enigma(<<BETA, V, VI, VIII>>, UKWC_THIN, <<"E","P","E","L">>, M4Plugs, TRUE, <<>>),
        Enigma(<<I, II, III>>, UKWB, <<>>, << <<"A","b">>, <<"a","C">> >>, TRUE, <<>>),
        Enigma(<<BETA, I, GAMMA, II>>, UKWB_THIN, <<>>, <<>>, TRUE, <<>>) } :
    Constructed(made)

NextEncode ==
  \/ CallEncode(MessageChoices, StartChoices)
  \/ EncodeAgain
  \/ AssignDoublestep
  \/ Return

SpecEncode == InitEncode /\ [][NextEncode]_vars

\* the positions of the rotors, as letters
Positions == [i \in 1..Len(_rotors) |-> At(ABC, _rotors[i].pos)]

\* the ring settings of the rotors, as letters
Rings == [i \in 1..Len(_rotors) |-> At(ABC, _rotors[i].ring)]

\* the machine has the rotors and the reflector named
Fitted(names, reflector) ==
  /\ [i \in 1..Len(_rotors) |-> _rotors[i].baserotor] = names
  /\ _reflector.baserotor = reflector

\* encode(message, start) has returned
Returned(start) ==
  /\ call.op = "encode"
  /\ call.err = OK
  /\ call.arg.grundstellung = Some(start)

\* C1: on a machine the constructor and the setters have accepted, when a
\* letters-only message has been encoded from a start position P, encoding
\* what was returned from P again returns the message, upper-cased.
RoundTrip ==
  (call.op = "encode" /\ call.plain # <<>>)
  => (call.err = OK /\ call.out = call.plain)

\* C2: on the machine of rotors I, II, III, reflector B and rings AAA, a
\* 5-letter message leaves the positions at ABY from AAT, at BFY from ADT
\* with the double step and at AEY from ADT without it.
DoublestepPositions ==
  ( /\ Fitted(<<"I", "II", "III">>, "UKWB")
    /\ Rings = <<"A","A","A">>
    /\ call.op = "encode" /\ call.err = OK
    /\ Len(call.arg.message) = 5 )
  => /\ Returned(<<"A","A","T">>) => Positions = <<"A","B","Y">>
     /\ Returned(<<"A","D","T">>) /\ doublestep => Positions = <<"B","F","Y">>
     /\ Returned(<<"A","D","T">>) /\ ~doublestep => Positions = <<"A","E","Y">>

\* a 5-letter message has been encoded from ADT with the double step
DoublestepPositionsWitness ==
  /\ Fitted(<<"I", "II", "III">>, "UKWB")
  /\ Rings = <<"A","A","A">>
  /\ Returned(<<"A","D","T">>)
  /\ Len(call.arg.message) = 5
  /\ doublestep
  /\ Positions = <<"B","F","Y">>

\* C3: with rotors I, II, III, reflector B, no plugs and start AAA, AAAAA
\* encodes to BDZGO with rings AAA and to EWTYX with rings BBB, and EWTYX
\* encodes to AAAAA with rings BBB.
M3Vectors ==
  ( /\ Fitted(<<"I", "II", "III">>, "UKWB")
    /\ _plugboard = EmptyDict
    /\ Returned(<<"A","A","A">>) )
  => /\ Rings = <<"A","A","A">> /\ call.arg.message = <<"A","A","A","A","A">>
          => call.out = <<"B","D","Z","G","O">>
     /\ Rings = <<"B","B","B">> /\ call.arg.message = <<"A","A","A","A","A">>
          => call.out = <<"E","W","T","Y","X">>
     /\ Rings = <<"B","B","B">> /\ call.arg.message = <<"E","W","T","Y","X">>
          => call.out = <<"A","A","A","A","A">>

\* AAAAA has been encoded from AAA with rings BBB
M3VectorsWitness ==
  /\ Fitted(<<"I", "II", "III">>, "UKWB")
  /\ _plugboard = EmptyDict
  /\ Returned(<<"A","A","A">>)
  /\ Rings = <<"B","B","B">>
  /\ call.arg.message = <<"A","A","A","A","A">>
  /\ call.out = <<"E","W","T","Y","X">>

\* the plugboard holds the pairs AE BF CM DQ HU JN LX PR SZ VW
M4Plugged == _plugboard = PlugLoop(EmptyDict, M4Plugs, 1)

\* C4: with rotors BETA, V, VI, VIII, reflector C thin, rings EPEL and the
\* plugs AE BF CM DQ HU JN LX PR SZ VW, QEOB from NAEM encodes to CDSZ.
M4Vector ==
  ( /\ Fitted(<<"BETA", "V", "VI", "VIII">>, "UKWC_THIN")
    /\ Rings = <<"E","P","E","L">>
    /\ M4Plugged
    /\ Returned(<<"N","A","E","M">>)
    /\ call.arg.message = <<"Q","E","O","B">> )
  => call.out = <<"C","D","S","Z">>

\* QEOB has been encoded from NAEM on the M4
M4VectorWitness ==
  /\ Fitted(<<"BETA", "V", "VI", "VIII">>, "UKWC_THIN")
  /\ Rings = <<"E","P","E","L">>
  /\ M4Plugged
  /\ Returned(<<"N","A","E","M">>)
  /\ call.arg.message = <<"Q","E","O","B">>
  /\ call.out = <<"C","D","S","Z">>

\* the rightmost rotor or the one to its left was defined without notches
Notchless ==
  \/ _rotors[Len(_rotors)].notchNone
  \/ _rotors[Len(_rotors) - 1].notchNone

\* C19: on a machine the constructor accepted whose rightmost or
\* second-from-right rotor has no notches, encode of a letters-only message
\* from a start position of the machine's length completes without error.
NotchlessNeverAtNotch ==
  ( /\ call.op = "encode"
    /\ IsAlphaStr(call.arg.message)
    /\ Len(call.arg.grundstellung.str) = Len(_rotors)
    /\ Notchless )
  => call.err = OK

\* C21: no letter encodes to itself: when encode has returned, each letter
\* of the output differs from the letter of the message at the same index.
NoSelfEncoding ==
  (call.op = "encode" /\ call.err = OK)
  => \A k \in 1..Len(call.out) : call.out[k] # Upper(call.arg.message[k])

(***************************************************************************)
(* SpecRotor: every pre-defined rotor at every ring setting and position.  *)
(***************************************************************************)
\* the strings of one letter n times
Uniform(n) == {Repeat(ABC[k], n) : k \in 1..26}

InitRotor ==
  \E made \in
      { Enigma(<<I, II, III>>, UKWB, <<>>, <<>>, TRUE, <<>>),
        Enigma(<<IV, V, VI>>, UKWC, <<>>, <<>>, TRUE, <<>>),
        Enigma(<<BETA, VII, VIII, I>>, UKWB_THIN, <<>>, <<>>, TRUE, <<>>),
        Enigma(<<GAMMA, VII, VIII, I>>, UKWC_THIN, <<>>, <<>>, TRUE, <<>>) } :
    Constructed(made)

NextRotor ==
  \/ AssignRingstellung(Uniform(Len(_rotors)))
  \/ AssignGrundstellung(Uniform(Len(_rotors)))
  \/ Return

SpecRotor == InitRotor /\ [][NextRotor]_vars

\* C5: for every rotor of the machine, at its ring setting and position, and
\* every letter c, left2right(right2left(c)) = c and
\* right2left(left2right(c)) = c.
Symmetry ==
  \A i \in 1..Len(_rotors) : \A k \in 1..26 :
    /\ left2right(_rotors[i], right2left(_rotors[i], ABC[k])) = ABC[k]
    /\ right2left(_rotors[i], left2right(_rotors[i], ABC[k])) = ABC[k]

\* GAMMA stands at ring Z and position Q and sends some letter elsewhere
SymmetryWitness ==
  /\ _rotors[1].baserotor = "GAMMA"
  /\ _rotors[1].ring = 25
  /\ _rotors[1].pos = 16
  /\ \E k \in 1..26 : right2left(_rotors[1], ABC[k]) # ABC[k]

(***************************************************************************)
(* SpecReflector: reflectors built from wirings and fitted to a machine.   *)
(***************************************************************************)
\* the places of a wiring that the candidate wirings exchange
MaxSwap == 5

\* s with the letters at places i and j exchanged
Swapped(s, i, j) ==
  [k \in 1..Len(s) |-> IF k = i THEN s[j] ELSE IF k = j THEN s[i] ELSE s[k]]

\* s.lower() of an upper-case s
Lower(s) == [k \in 1..Len(s) |-> At(abc, OrdOf(s[k]))]

\* reflector B and the alphabet itself, each with two places exchanged or
\* none, reflector B in lower case, and the alphabet with its first letter
\* in both cases
WiringChoices ==
  { Swapped(w, i, j) : w \in {UKWB.wiring, ABC}, i \in 1..MaxSwap, j \in 1..MaxSwap }
    \cup { Lower(UKWB.wiring), [ABC EXCEPT ![1] = "a", ![2] = "A"] }

InitReflector ==
  \E made \in
      { Enigma(<<I, II, III>>, UKWB, <<>>, <<>>, TRUE, <<>>),
        Enigma(<<BETA, V, VI, VIII>>, UKWC_THIN, <<>>, <<>>, TRUE, <<>>) } :
    Constructed(made)

NextReflector ==
  \/ InstallReflector(WiringChoices)
  \/ Return

SpecReflector == InitReflector /\ [][NextReflector]_vars

\* C6: a Reflector that has been constructed is self-inverse and sends no
\* letter to itself: wiring[wiring[c]] = c and wiring[c] # c for every c.
FixedPointFreeInvolution ==
  (call.op = "Reflector" /\ call.err = OK)
  => \A k \in 1..26 :
       /\ reflect(_reflector, reflect(_reflector, ABC[k])) = ABC[k]
       /\ reflect(_reflector, ABC[k]) # ABC[k]

(***************************************************************************)
(* SpecPersist: an encode without a start position after one with.         *)
(***************************************************************************)
ShortMessages == { <<"A">>, <<"h","e">>, <<"X","Y","Z">> }

PersistStarts == { Some(<<"A","D","T">>), Some(<<"A","D","U">>), Some(<<"N","A","E","M">>) }

InitPersist ==
  \E made \in
      { Enigma(<<I, II, III>>, UKWB, <<"B","B","B">>, <<>>, TRUE, <<>>),
        Enigma(<<BETA, V, VI, VIII>>, UKWC_THIN, <<"E","P","E","L">>, M4Plugs, TRUE, <<>>) } :
    Constructed(made)

NextPersist ==
  \/ CallEncode(ShortMessages, PersistStarts)
  \/ EncodeOn(ShortMessages)
  \/ AssignDoublestep
  \/ Return

SpecPersist == InitPersist /\ [][NextPersist]_vars

\* the positions of the rotors of obj
PositionsOf(obj) == [i \in 1..Len(obj._rotors) |-> obj._rotors[i].pos]

\* C13: when encode(m2) without a start position follows encode(m1, P), the
\* two outputs joined are what encode(m1 + m2, P) returns, and the rotors end
\* where encode(m1 + m2, P) leaves them.
PositionsPersist ==
  [][ ( /\ call.op = "encode" /\ call.err = OK /\ call.arg.grundstellung.given
        /\ call'.op = "encode" /\ call'.err = OK /\ ~call'.arg.grundstellung.given )
      => LET Same(whole) ==
               /\ whole.err = OK
               /\ call.out \o call'.out = whole.out
               /\ PositionsOf(whole.self) = [i \in 1..Len(_rotors') |-> _rotors'[i].pos]
         IN  Same(Encode(this, call.arg.message \o call'.arg.message,
                         call.arg.grundstellung)) ]_vars

\* encode of XYZ without a start position has followed an encode from ADU:
\* the middle rotor has been carried on
PositionsPersistWitness ==
  /\ call.op = "encode" /\ call.err = OK
  /\ ~call.arg.grundstellung.given
  /\ call.arg.message = <<"X","Y","Z">>
  /\ chain = 1
  /\ Len(_rotors) = 3
  /\ _rotors[2].pos = 4

(***************************************************************************)
(* SpecStep: keystrokes from positions at and off the notches.             *)
(***************************************************************************)
Keystrokes == { <<"A">>, <<"p","q">> }

\* the starts of rotors I, II, III (notches Q, E, V) and of BETA, V, VI, VIII
\* (notches none, Z, ZM, ZM), each rotor on a notch or off it
NotchStarts ==
  { Some(<<a, b, c>>) : a \in {"A", "Q"}, b \in {"D", "E"}, c \in {"U", "V"} }
    \cup { Some(<<"N", b, c, d>>) : b \in {"Y", "Z"}, c \in {"M", "N"}, d \in {"L", "Z"} }

StepStarts == NotchStarts \cup {None}

Alphabet == {ABC}

AlphabetStarts == {Some(<<"A","D","T">>), Some(<<"N","A","Y","M">>), None}

InitStep ==
  \E made \in
      { Enigma(<<I, II, III>>, UKWB, <<>>, <<>>, TRUE, <<>>),
        Enigma(<<BETA, V, VI, VIII>>, UKWC_THIN, <<"E","P","E","L">>, M4Plugs, TRUE, <<>>) } :
    Constructed(made)

NextStep ==
  \/ CallEncode(Keystrokes, StepStarts)
  \/ CallEncode(Alphabet, AlphabetStarts)
  \/ AssignDoublestep
  \/ Return

SpecStep == InitStep /\ [][NextStep]_vars

\* the positions the call of call' begins from: those of its start position,
\* or those the rotors stand at
From(i) ==
  IF call'.arg.grundstellung.given
  THEN OrdOf(Upper(call'.arg.grundstellung.str[i]))
  ELSE _rotors[i].pos

\* rotor i has gone k places on in the step
Advanced(i, k) == _rotors'[i].pos = (From(i) + k) % 26

\* an encode that returns is made
Encodes == call = Idle /\ call'.op = "encode" /\ call'.err = OK

\* an encode of one character that returns is made
Keystroke == Encodes /\ Len(call'.arg.message) = 1

\* C14: an encode of n characters takes the rightmost rotor n places on,
\* modulo 26, whatever the notches and the double-step flag; 26 characters
\* bring it back to where it began.
RightmostAdvances ==
  [][ Encodes =>
        /\ Advanced(Len(_rotors), Len(call'.arg.message))
        /\ Len(call'.arg.message) = 26 => Advanced(Len(_rotors), 0) ]_vars

\* the alphabet has been encoded from ADT: the rightmost rotor is back at T
\* and the middle rotor has been carried on
RightmostAdvancesWitness ==
  /\ call.op = "encode" /\ call.err = OK
  /\ call.arg.message = ABC
  /\ call.arg.grundstellung = Some(<<"A","D","T">>)
  /\ _rotors[3].pos = 19
  /\ _rotors[2].pos # 3

\* rotor i stands on one of its notches where the call of call' begins
OnNotch(i) == ~_rotors[i].notchNone /\ From(i) \in _rotors[i].notch

\* the double-step branch is the one the keystroke takes
DoubleStepTaken == doublestep /\ OnNotch(Len(_rotors) - 1)

\* C15: with the double step enabled and the second-from-right rotor on a
\* notch, a keystroke takes the second and the third rotor from the right
\* one place on each, and no rotor more than one place on.
DoubleStep ==
  [][ (Keystroke /\ DoubleStepTaken)
      => /\ Advanced(Len(_rotors) - 1, 1)
         /\ Advanced(Len(_rotors) - 2, 1)
         /\ \A i \in 1..Len(_rotors) : Advanced(i, 0) \/ Advanced(i, 1) ]_vars

\* a keystroke from AEV with the double step, the rightmost rotor on its
\* notch too: the rotors stand at BFW
DoubleStepWitness ==
  /\ call.op = "encode" /\ call.err = OK
  /\ Len(call.arg.message) = 1
  /\ call.arg.grundstellung = Some(<<"A","E","V">>)
  /\ doublestep
  /\ PositionsOf(this) = <<1, 5, 22>>

\* C16: when the double-step branch is not taken, a keystroke takes the
\* second-from-right rotor one place on if and only if the rightmost rotor
\* is on a notch, and the third-from-right rotor one place on if and only if
\* both of them are; otherwise they stay.
Carry ==
  [][ (Keystroke /\ ~DoubleStepTaken)
      => LET n == Len(_rotors)
         IN  /\ IF OnNotch(n) THEN Advanced(n - 1, 1) ELSE Advanced(n - 1, 0)
             /\ IF OnNotch(n) /\ OnNotch(n - 1) THEN Advanced(n - 2, 1)
                 ELSE Advanced(n - 2, 0) ]_vars

\* a keystroke from AEV without the double step, both right-hand rotors on
\* their notches: the rotors stand at BFW
CarryWitness ==
  /\ call.op = "encode" /\ call.err = OK
  /\ Len(call.arg.message) = 1
  /\ call.arg.grundstellung = Some(<<"A","E","V">>)
  /\ ~doublestep
  /\ PositionsOf(this) = <<1, 5, 22>>

\* C17: on a machine of 4 rotors an encode leaves the leftmost rotor where
\* it was: where the start position put it, or without one where it stood.
LeftmostStays ==
  [][ ( /\ call = Idle /\ call'.op = "encode"
        /\ Len(_rotors) = 4
        /\ call'.err = OK \/ ~call'.arg.grundstellung.given )
      => Advanced(1, 0) ]_vars

\* a keystroke without a start position has carried the third-from-right
\* rotor of the M4 from Y to Z, and the leftmost rotor stands at N
LeftmostStaysWitness ==
  /\ call.op = "encode" /\ call.err = OK
  /\ ~call.arg.grundstellung.given
  /\ Len(call.arg.message) = 1
  /\ Len(_rotors) = 4
  /\ ~doublestep
  /\ PositionsOf(this) = <<13, 25, 13, 13>>

(***************************************************************************)
(* SpecWiring: rotors built from wiring strings.                           *)
(***************************************************************************)
\* r = Rotor(wiring): the wiring stored is what the caller gets, the machine
\* is not touched
MakeRotor(wiringChoices) ==
  /\ call = Idle
  /\ \E wiring \in wiringChoices :
       LET Made(made) ==
             call' = Call("Rotor", wiring, made.err, "",
                          IF made.err = OK THEN made.wiring ELSE <<>>, <<>>)
       IN  Made(Rotor("Rotor", wiring, None))
  /\ UNCHANGED <<_reflector, _rotors, _plugboard, doublestep, chain>>

\* s with the letter at place j, in lower case, written at place i
Folded(s, i, j) == [s EXCEPT ![i] = At(abc, OrdOf(s[j]))]

\* s with the letter at place j written at place i as well
Doubled(s, i, j) == [s EXCEPT ![i] = s[j]]

\* rotor I and the alphabet itself: with two places exchanged or none, with
\* a letter repeated in the same case and in the other case, in lower case,
\* one letter short, and with a character that is no letter
RotorWirings ==
  { Swapped(w, i, j) : w \in {I.wiring, ABC}, i \in 1..MaxSwap, j \in 1..MaxSwap }
    \cup { Doubled(w, i, j) : w \in {I.wiring, ABC}, i \in 1..MaxSwap, j \in 1..MaxSwap }
    \cup { Folded(w, i, j) : w \in {I.wiring, ABC}, i \in 1..MaxSwap, j \in 1..MaxSwap }
    \cup { Lower(I.wiring), Lower(ABC), SubSeq(ABC, 1, 25), [ABC EXCEPT ![26] = "1"],
           [I.wiring EXCEPT ![1] = "E'"] }

InitWiring ==
  \E made \in
      { Enigma(<<I, II, III>>, UKWB, <<>>, <<>>, TRUE, <<>>),
        Enigma(<<BETA, V, VI, VIII>>, UKWC_THIN, <<>>, <<>>, TRUE, <<>>) } :
    Constructed(made)

NextWiring ==
  \/ MakeRotor(RotorWirings)
  \/ Return

SpecWiring == InitWiring /\ [][NextWiring]_vars

\* C20: a Rotor that has been constructed has a wiring that is a bijection
\* on the alphabet: 26 letters, each letter of ABC once.
WiringBijection ==
  (call.op = "Rotor" /\ call.err = OK)
  => /\ Len(call.out) = 26
     /\ Range(call.out) = Range(ABC)

(***************************************************************************)
(* SpecLength: messages of every length from none to past a full turn of   *)
(* the rightmost rotor.                                                    *)
(***************************************************************************)
\* the longest message
MaxLen == 27

\* 'A'*n for every n, and a message in lower case
LengthMessages ==
  { Repeat("A", n) : n \in 0..MaxLen } \cup { <<"h","e">> }

LengthStarts ==
  { Some(<<"A","D","T">>), Some(<<"N","A","E","M">>), None }

InitLength ==
  \E made \in
      { Enigma(<<I, II, III>>, UKWB, <<"A","A","A">>, <<>>, FALSE, <<>>),
        Enigma(<<BETA, V, VI, VIII>>, UKWC_THIN, <<"E","P","E","L">>, M4Plugs, TRUE, <<>>) } :
    Constructed(made)

NextLength ==
  \/ CallEncode(LengthMessages, LengthStarts)
  \/ Return

SpecLength == InitLength /\ [][NextLength]_vars

\* every character of the message is one of the 26 letters, in either case
LettersOnly(message) ==
  \A i \in 1..Len(message) : message[i] \in Range(ABC) \cup Range(abc)

\* the positions encode starts from: those given, or those the rotors are at
StartsFrom(grundstellung) ==
  IF grundstellung.given
    THEN [i \in 1..Len(grundstellung.str) |-> OrdOf(grundstellung.str[i])]
  ELSE PositionsOf(this)

\* C22: encode of a message of n letters of the alphabet, n >= 0, from a
\* start position of the machine's length or from where the rotors are,
\* succeeds, returns n letters and leaves the rightmost rotor n mod 26 places
\* further; with n = 0 it returns the empty string and every rotor is where
\* encode started from.
LengthPreserved ==
  [][ ( /\ call = Idle
        /\ call'.op = "encode"
        /\ LettersOnly(call'.arg.message)
        /\ Len(StartsFrom(call'.arg.grundstellung)) = Len(_rotors) )
      => LET n == Len(call'.arg.message)
             last == Len(_rotors)
             from == StartsFrom(call'.arg.grundstellung)
         IN  /\ call'.err = OK
             /\ Len(call'.out) = n
             /\ \A k \in 1..Len(call'.out) : call'.out[k] \in Range(ABC)
             /\ _rotors'[last].pos = (from[last] + n) % 26
             /\ n = 0 => [i \in 1..last |-> _rotors'[i].pos] = from
    ]_vars

====
